---- MODULE Spec2Model ----
(***************************************************************************)
(* Model of the fluent-setter decorator, of                                *)
(* FluentBaseModel.generate_fluent_setters and of the two length           *)
(* validators of the tweet schema.                                         *)
(*                                                                         *)
(* Spec       the fluent builder: model types with their method tables,    *)
(*            instances, and callers running chains of with_<f> calls.     *)
(* TweetSpec  the validators User.description_replace / Tweet.text_replace *)
(*            applied to strings of bounded shape.                         *)
(***************************************************************************)
EXTENDS Integers, Sequences, FiniteSets, TLC

VARIABLES
    methods,   \* per model type: the type's own attribute table (name -> function object)
    nextId,    \* identity given to the next function object created
    authored,  \* per model type: the methods its author wrote in the class body
    generated, \* the model types generate_fluent_setters() has run on
    rerun,     \* TRUE once it has run again on a type it had already run on
    heap,      \* instance id -> [cls, dict]: the instances and their field values
    chain,     \* per caller: progress of its chain m.with_x(..).with_y(..)...
    twIn,      \* tweet schema: the value handed to a validator
    twOut      \* tweet schema: the outcome of the last validator run

vars == <<methods, authored, nextId, generated, rerun, heap, chain, twIn, twOut>>
fluentVars == <<methods, authored, nextId, generated, rerun, heap, chain>>
tweetVars == <<twIn, twOut>>

(***************************************************************************)
(* Bounds                                                                  *)
(***************************************************************************)
MaxCalls == 2     \* setter calls in one caller's chain
MaxHead == 2      \* free characters at the front of a validator input
MaxPad == 141     \* longest run of one repeated character after the head

(***************************************************************************)
(* The model types the callers declare.  FluentBaseModel declares no       *)
(* field; P(FluentBaseModel) declares a; K(P) declares b and c.            *)
(***************************************************************************)
\* The reference None; instances are referred to by 1, 2, ...
None == 0
Default == "d"
Values == {"v1", "bad"}
Classes == {"FluentBaseModel", "P", "K"}
Callers == {1, 2}

\* cls.__annotations__: the names annotated in the body of cls itself, in
\* declaration order.
Annotations(cls) ==
    CASE cls = "K" -> <<"b", "c">>
      [] cls = "P" -> <<"a">>
      [] OTHER -> << >>

\* The model types of cls.__mro__, nearest first.
Mro(cls) ==
    CASE cls = "K" -> <<"K", "P", "FluentBaseModel">>
      [] cls = "P" -> <<"P", "FluentBaseModel">>
      [] OTHER -> <<"FluentBaseModel">>

Range(s) == {s[i] : i \in 1..Len(s)}

\* The fields an instance of cls holds a value for: those annotated in cls
\* and in every model type cls inherits from.
ModelFields(cls) == UNION {Range(Annotations(Mro(cls)[i])) : i \in 1..Len(Mro(cls))}

AllFields == UNION {Range(Annotations(c)) : c \in Classes}

\* "_".join(parts)
RECURSIVE Join(_)
Join(parts) ==
    IF Len(parts) = 0 THEN ""
    ELSE IF Len(parts) = 1 THEN parts[1]
    ELSE parts[1] \o "_" \o Join(Tail(parts))

\* Variant: the parts concatenated without the separator.
MethodName_NoSeparator(field) == "with" \o field

MethodName(field) == Join(<<"with", field>>)

(***************************************************************************)
(* Attribute lookup on a type                                              *)
(***************************************************************************)
\* hasattr(cls, name): name is found in cls or in a type of its MRO.
HasAttr(tbl, cls, name) == \E i \in 1..Len(Mro(cls)) : name \in DOMAIN tbl[Mro(cls)[i]]

\* getattr(cls, name): the entry of the nearest type of the MRO that has one.
GetAttr(tbl, cls, name) ==
    LET i == CHOOSE k \in 1..Len(Mro(cls)) :
                 /\ name \in DOMAIN tbl[Mro(cls)[k]]
                 /\ \A j \in 1..(k - 1) : name \notin DOMAIN tbl[Mro(cls)[j]]
    IN tbl[Mro(cls)[i]][name]

\* setattr(cls, name, method)
SetClassAttr(tbl, cls, name, method) ==
    [tbl EXCEPT ![cls] = [n \in (DOMAIN tbl[cls]) \cup {name} |->
                              IF n = name THEN method ELSE tbl[cls][n]]]

(***************************************************************************)
(* Function objects                                                        *)
(***************************************************************************)
\* lambda self, value, field=field: setattr(self, field, value) or self
Lambda(field) == [kind |-> "lambda", field |-> field]

\* A method body the type author wrote by hand: sets its field, returns self.
UserDef(field) == [kind |-> "def", field |-> field]

\* fluent_setter(attr_name)(method): the wrapper closes over attr_name and method.
fluent_setter(attr_name, method, id) ==
    [kind |-> "wrapper", attr_name |-> attr_name, wrapped |-> method, id |-> id]

\* A plain method of the type, not decorated.
PlainMethod(body, id) ==
    [kind |-> "plain", attr_name |-> body.field, wrapped |-> body, id |-> id]

(***************************************************************************)
(* generate_fluent_setters                                                 *)
(***************************************************************************)
\* Variant: the wrapper closes over the loop variable, which holds the field
\* visited last once the loop is over.
RECURSIVE GenLoop_LateBinding(_, _, _, _)
GenLoop_LateBinding(cls, i, tbl, id) ==
    IF i > Len(Annotations(cls)) THEN [tbl |-> tbl, id |-> id]
    ELSE LET field == Annotations(cls)[i]
             last == Annotations(cls)[Len(Annotations(cls))]
             method_name == MethodName(field)
         IN IF ~HasAttr(tbl, cls, method_name)
            THEN GenLoop_LateBinding(cls, i + 1,
                         SetClassAttr(tbl, cls, method_name,
                                      fluent_setter(last, Lambda(last), id)),
                         id + 1)
            ELSE GenLoop_LateBinding(cls, i + 1, tbl, id)

\* Variant: no hasattr test, every setter is attached.
RECURSIVE GenLoop_Overwrite(_, _, _, _)
GenLoop_Overwrite(cls, i, tbl, id) ==
    IF i > Len(Annotations(cls)) THEN [tbl |-> tbl, id |-> id]
    ELSE LET field == Annotations(cls)[i]
             method_name == MethodName(field)
         IN GenLoop_Overwrite(cls, i + 1,
                         SetClassAttr(tbl, cls, method_name,
                                      fluent_setter(field, Lambda(field), id)),
                         id + 1)

\* Variant: hasattr is asked for the field name instead of the method name.
RECURSIVE GenLoop_TestsField(_, _, _, _)
GenLoop_TestsField(cls, i, tbl, id) ==
    IF i > Len(Annotations(cls)) THEN [tbl |-> tbl, id |-> id]
    ELSE LET field == Annotations(cls)[i]
             method_name == MethodName(field)
         IN IF ~HasAttr(tbl, cls, field)
            THEN GenLoop_TestsField(cls, i + 1,
                         SetClassAttr(tbl, cls, method_name,
                                      fluent_setter(field, Lambda(field), id)),
                         id + 1)
            ELSE GenLoop_TestsField(cls, i + 1, tbl, id)

RECURSIVE GenLoop(_, _, _, _)
GenLoop(cls, i, tbl, id) ==
    IF i > Len(Annotations(cls)) THEN [tbl |-> tbl, id |-> id]
    ELSE LET field == Annotations(cls)[i]
             method_name == MethodName(field)
         IN IF ~HasAttr(tbl, cls, method_name)
            THEN GenLoop(cls, i + 1,
                         SetClassAttr(tbl, cls, method_name,
                                      fluent_setter(field, Lambda(field), id)),
                         id + 1)
            ELSE GenLoop(cls, i + 1, tbl, id)

generate_fluent_setters(cls) ==
    LET r == GenLoop(cls, 1, methods, nextId)
    IN /\ methods' = r.tbl
       /\ nextId' = r.id
       /\ generated' = generated \cup {cls}
       /\ rerun' = (rerun \/ cls \in generated)
       /\ UNCHANGED <<authored, heap, chain, tweetVars>>

(***************************************************************************)
(* Attribute assignment on an instance                                     *)
(***************************************************************************)
\* model_config of the type: K validates on assignment, the others keep the
\* default (no validation on assignment).
validate_assignment(cls) == cls = "K"

\* The field constraint of the type: b rejects the value "bad".
Rejects(name, value) == name = "b" /\ value = "bad"

\* Variant: the value is stored on the type, so every instance sees it.
SetAttr_Shared(h, self, name, value) ==
    IF name \notin ModelFields(h[self].cls)
    THEN [heap |-> h, exc |-> "ValueError"]
    ELSE IF validate_assignment(h[self].cls) /\ Rejects(name, value)
    THEN [heap |-> h, exc |-> "ValidationError"]
    ELSE [heap |-> [i \in DOMAIN h |->
                       IF name \in DOMAIN h[i].dict
                       THEN [h[i] EXCEPT !.dict[name] = value] ELSE h[i]],
          exc |-> "none"]

\* setattr(self, name, value) on a model instance: an unknown name and a
\* rejected value raise and leave the instance as it was.
SetAttr(h, self, name, value) ==
    IF name \notin ModelFields(h[self].cls)
    THEN [heap |-> h, exc |-> "ValueError"]
    ELSE IF validate_assignment(h[self].cls) /\ Rejects(name, value)
    THEN [heap |-> h, exc |-> "ValidationError"]
    ELSE [heap |-> [h EXCEPT ![self].dict[name] = value], exc |-> "none"]

\* The body of a wrapped function, were it called:
\* setattr(self, field, value) or self.
RunBody(body, h, self, value) ==
    LET s == SetAttr(h, self, body.field, value)
    IN [heap |-> s.heap, exc |-> s.exc, nsets |-> 1, bodyRan |-> TRUE,
        ret |-> IF s.exc = "none" THEN self ELSE None]

\* Variant: the wrapper forgets its return statement.
wrapper_NoReturn(m, h, self, value) ==
    LET s == SetAttr(h, self, m.attr_name, value)
    IN [heap |-> s.heap, exc |-> s.exc, nsets |-> 1, bodyRan |-> FALSE, ret |-> None]

\* Variant: the wrapper calls the wrapped method before its own setattr.
wrapper_CallsMethod(m, h, self, value) ==
    LET b == RunBody(m.wrapped, h, self, value)
        s == SetAttr(b.heap, self, m.attr_name, value)
    IN IF b.exc # "none" THEN b
       ELSE [heap |-> s.heap, exc |-> s.exc, nsets |-> b.nsets + 1, bodyRan |-> TRUE,
             ret |-> IF s.exc = "none" THEN self ELSE None]

\* Variant: the wrapper swallows what setattr raises.
wrapper_Swallows(m, h, self, value) ==
    LET s == SetAttr(h, self, m.attr_name, value)
    IN [heap |-> s.heap, exc |-> "none", nsets |-> 1, bodyRan |-> FALSE, ret |-> self]

\* wrapper(self, value) of fluent_setter: one setattr, then return self.  The
\* wrapped method is never called.
wrapper(m, h, self, value) ==
    LET s == SetAttr(h, self, m.attr_name, value)
    IN [heap |-> s.heap, exc |-> s.exc, nsets |-> 1, bodyRan |-> FALSE,
        ret |-> IF s.exc = "none" THEN self ELSE None]

\* Calling the function object m bound to self.
Invoke(m, h, self, value) ==
    IF m.kind = "wrapper" THEN wrapper(m, h, self, value)
    ELSE RunBody(m.wrapped, h, self, value)

(***************************************************************************)
(* Callers: each builds its own instance with a chain of with_<f> calls    *)
(***************************************************************************)
NoCall == [self |-> None, field |-> "", value |-> "", fn |-> 0, kind |-> "", attr |-> "",
           ret |-> None, exc |-> "none", nsets |-> 0, bodyRan |-> FALSE,
           before |-> << >>]

\* One step  cur.with_<field>(value)  of caller p's chain, cur being what the
\* previous step returned.
Call(p, field, value) ==
    /\ chain[p].exc = "none"
    /\ chain[p].steps < MaxCalls
    /\ LET self == chain[p].cur
           name == MethodName(field)
       IN IF self = None \/ ~HasAttr(methods, heap[self].cls, name)
          THEN /\ chain' = [chain EXCEPT ![p].exc = "AttributeError",
                                         ![p].steps = @ + 1,
                                         ![p].cur = None,
                                         ![p].last = [NoCall EXCEPT !.self = self,
                                                         !.field = field,
                                                         !.value = value,
                                                         !.exc = "AttributeError"]]
               /\ heap' = heap
          ELSE LET m == GetAttr(methods, heap[self].cls, name)
                   r == Invoke(m, heap, self, value)
               IN /\ heap' = r.heap
                  /\ chain' = [chain EXCEPT
                        ![p].exc = r.exc,
                        ![p].steps = @ + 1,
                        ![p].cur = r.ret,
                        ![p].done = IF r.exc = "none"
                                    THEN Append(@, <<m.attr_name, value>>) ELSE @,
                        ![p].last = [self |-> self, field |-> field, value |-> value,
                                     fn |-> m.id, kind |-> m.kind, attr |-> m.attr_name,
                                     ret |-> r.ret, exc |-> r.exc,
                                     nsets |-> r.nsets, bodyRan |-> r.bodyRan,
                                     before |-> heap[self].dict]]
    /\ UNCHANGED <<methods, authored, nextId, generated, rerun, tweetVars>>

(***************************************************************************)
(* The tweet schema's validators                                           *)
(***************************************************************************)
TextMaxLen == 140
DescriptionMaxLen == 80

Chars == {"a", "\n", " "}

\* v.replace(old, new) for a one-character old.
Replace(v, old, new) == [i \in 1..Len(v) |-> IF v[i] = old THEN new ELSE v[i]]

\* What a validator run ends in.  ValidationError(msg) cannot be constructed
\* from a message alone, so the raise statement ends in a TypeError.
Raised(validator) ==
    [validator |-> validator, status |-> "raised", exc |-> "TypeError", value |-> << >>]
Returned(validator, value) ==
    [validator |-> validator, status |-> "ok", exc |-> "none", value |-> value]
NotValidated == [validator |-> "none", status |-> "none", exc |-> "none", value |-> << >>]

\* Variant: the bound itself is rejected.
text_replace_Strict(v) ==
    IF Len(v) >= TextMaxLen THEN Raised("text")
    ELSE Returned("text", Replace(v, "\n", " "))

\* Tweet.text_replace
text_replace(v) ==
    IF Len(v) > TextMaxLen THEN Raised("text")
    ELSE Returned("text", Replace(v, "\n", " "))

\* User.description_replace
description_replace(v) ==
    IF Len(v) > DescriptionMaxLen THEN Raised("description")
    ELSE Returned("description", Replace(v, "\n", " "))

\* The strings tried: up to MaxHead free characters, then up to MaxPad
\* repetitions of one character.
Heads == UNION {[1..n -> Chars] : n \in 0..MaxHead}
Pad(c, n) == [i \in 1..n |-> c]
TweetInputs == {h \o Pad(c, n) : h \in Heads, c \in Chars, n \in 0..MaxPad}

ValidateText ==
    /\ twOut.status = "none"
    /\ twOut' = text_replace(twIn)
    /\ UNCHANGED <<twIn, fluentVars>>

ValidateDescription ==
    /\ twOut.status = "none"
    /\ twOut' = description_replace(twIn)
    /\ UNCHANGED <<twIn, fluentVars>>

(***************************************************************************)
(* The fluent-builder specification                                        *)
(***************************************************************************)
\* Methods the type author wrote before generation runs: none, or K defines
\* with_b as a plain method, or K defines with_b decorated by hand with
\* fluent_setter("b"), or P defines with_c decorated by hand with
\* fluent_setter("c").
Table(cls, tbl) == [c \in Classes |-> IF c = cls THEN tbl ELSE << >>]

UserTables ==
    {Table("K", << >>),
     Table("K", [n \in {"with_b"} |-> PlainMethod(UserDef("b"), -1)]),
     Table("K", [n \in {"with_b"} |-> fluent_setter("b", UserDef("b"), -2)]),
     Table("P", [n \in {"with_c"} |-> fluent_setter("c", UserDef("c"), -3)])}

\* Caller 1 builds a K, caller 2 a P.
InstanceClass(i) == IF i = 1 THEN "K" ELSE "P"

NewInstance(cls) == [cls |-> cls, dict |-> [f \in ModelFields(cls) |-> Default]]

Init ==
    /\ methods \in UserTables
    /\ authored = methods
    /\ nextId = 1
    /\ generated = {}
    /\ rerun = FALSE
    /\ heap = [i \in Callers |-> NewInstance(InstanceClass(i))]
    /\ chain = [p \in Callers |-> [steps |-> 0, cur |-> p, exc |-> "none",
                                   done |-> << >>, last |-> NoCall]]
    /\ twIn = << >>
    /\ twOut = NotValidated

Generate == \E cls \in Classes : generate_fluent_setters(cls)

\* A caller calls the setters of the fields its instance has.
Setter ==
    \E p \in Callers, value \in Values :
        \E field \in ModelFields(heap[p].cls) : Call(p, field, value)

Next == Generate \/ Setter

Spec == Init /\ [][Next]_vars

(***************************************************************************)
(* The validator specification                                             *)
(***************************************************************************)
TweetInit ==
    /\ twIn \in TweetInputs
    /\ twOut = NotValidated
    /\ methods = [c \in Classes |-> << >>]
    /\ authored = methods
    /\ nextId = 1
    /\ generated = {}
    /\ rerun = FALSE
    /\ heap = [i \in Callers |-> NewInstance(InstanceClass(i))]
    /\ chain = [p \in Callers |-> [steps |-> 0, cur |-> p, exc |-> "none",
                                   done |-> << >>, last |-> NoCall]]

TweetNext == ValidateText \/ ValidateDescription

TweetSpec == TweetInit /\ [][TweetNext]_vars

(***************************************************************************)
(* Properties                                                              *)
(***************************************************************************)
Last(p) == chain[p].last

\* The last call of caller p went through a fluent_setter wrapper.
ThroughWrapper(p) == Last(p).kind = "wrapper"

\* The value the chain gave field f last, among the calls of `done`.
IsLatest(done, k) == \A j \in (k + 1)..Len(done) : done[j][1] # done[k][1]

\* C1 - Chaining identity: a call m.with_f(v) to a setter produced by
\* fluent_setter that succeeds returns the instance m it was called on (not
\* None, not another instance), so the chain is still on the instance it
\* started on.
C1_ChainingIdentity ==
    \A p \in Callers :
        (ThroughWrapper(p) /\ Last(p).exc = "none") =>
            /\ Last(p).ret = Last(p).self
            /\ Last(p).ret # None
            /\ chain[p].cur = p

C1_Witness ==
    /\ chain[1].steps = 2
    /\ chain[1].exc = "none"
    /\ Len(chain[1].done) = 2
    /\ ThroughWrapper(1)
    /\ Last(1).fn > 0
    /\ Last(1).ret = 1

\* C2 - Assignment correctness: after m.with_f(v) succeeds, field f of m
\* reads v, for every field of a type with several fields.
C2_AssignmentCorrectness ==
    \A p \in Callers :
        (ThroughWrapper(p) /\ Last(p).exc = "none") =>
            heap[Last(p).self].dict[Last(p).field] = Last(p).value

C2_Witness ==
    /\ ThroughWrapper(1)
    /\ Last(1).fn > 0
    /\ Last(1).exc = "none"
    /\ Last(1).field = "b"
    /\ Last(1).value = "v1"
    /\ heap[1].dict["b"] = "v1"
    /\ heap[1].dict["c"] = Default

\* C3 - No cross-field leakage: a setter call on instance m for field f
\* leaves every other field of m and every field of every other instance
\* as it was, whatever the interleaving of the callers.
C3_NoCrossFieldLeakage ==
    [][\A p \in Callers, f \in AllFields, v \in Values :
          Call(p, f, v) =>
              \A i \in Callers : \A g \in DOMAIN heap[i].dict :
                  (i # chain[p].cur \/ g # f) => heap'[i].dict[g] = heap[i].dict[g]]_vars

C3_Witness ==
    /\ chain[1].done # << >>
    /\ chain[2].done # << >>
    /\ heap[1].dict["a"] = "v1"
    /\ heap[2].dict["a"] = "bad"
    /\ heap[1].dict["b"] = Default

\* C4 - Override precedence: a with_f the type author wrote is what with_f
\* still resolves to after any number of generation runs, a call to it runs
\* the author's method, and the other annotated fields of the type get
\* their generated setter.
C4_OverridePrecedence ==
    /\ \A c \in Classes : \A f \in AllFields :
          HasAttr(authored, c, MethodName(f)) =>
              GetAttr(methods, c, MethodName(f)) = GetAttr(authored, c, MethodName(f))
    /\ \A p \in Callers :
          (Last(p).self # None /\ HasAttr(authored, heap[p].cls, MethodName(Last(p).field))) =>
              /\ Last(p).fn = GetAttr(authored, heap[p].cls, MethodName(Last(p).field)).id
              /\ Last(p).kind = "plain" => Last(p).bodyRan
    /\ \A c \in generated : \A f \in Range(Annotations(c)) :
          ~HasAttr(authored, c, MethodName(f)) =>
              /\ MethodName(f) \in DOMAIN methods[c]
              /\ methods[c][MethodName(f)].id > 0
              /\ methods[c][MethodName(f)].attr_name = f

C4_Witness ==
    /\ "K" \in generated
    /\ rerun
    /\ "with_b" \in DOMAIN authored["K"]
    /\ authored["K"]["with_b"].kind = "plain"
    /\ methods["K"]["with_b"] = authored["K"]["with_b"]
    /\ "with_c" \in DOMAIN methods["K"]
    /\ Last(1).field = "b"
    /\ Last(1).bodyRan

\* C5 - Idempotent generation: a run of generate_fluent_setters() on a type
\* it has already run on leaves every method table as it is, by name and by
\* function object.
C5_IdempotentGeneration ==
    [][\A c \in Classes :
          (c \in generated /\ generate_fluent_setters(c)) => methods' = methods]_vars

C5_Witness ==
    /\ rerun
    /\ generated = Classes
    /\ DOMAIN methods["K"] = {"with_b", "with_c"}
    /\ DOMAIN methods["P"] = {"with_a"}
    /\ nextId = 4

\* C6 - Setter coverage: once generate_fluent_setters() has run on T, every
\* field of T, inherited ones included, has a setter named with_<field> on T
\* that sets that field.
C6_SetterCoverage ==
    \A c \in generated : \A f \in ModelFields(c) :
        /\ HasAttr(methods, c, "with_" \o f)
        /\ GetAttr(methods, c, "with_" \o f).attr_name = f

\* C7 - Validation propagation: a setter call made with a value the type's
\* assignment validation rejects raises the validation error at that call,
\* no later setter of the chain runs, the field keeps the value it had, and
\* the fields set earlier in the chain keep the values the chain gave them.
RejectedCall(p) ==
    /\ Last(p).self # None
    /\ Last(p).fn # 0
    /\ validate_assignment(heap[Last(p).self].cls)
    /\ Last(p).attr \in ModelFields(heap[Last(p).self].cls)
    /\ Rejects(Last(p).attr, Last(p).value)

C7_ValidationPropagation ==
    \A p \in Callers :
        RejectedCall(p) =>
            /\ Last(p).exc = "ValidationError"
            /\ chain[p].exc = "ValidationError"
            /\ \A f \in AllFields, v \in Values : ~ENABLED Call(p, f, v)
            /\ heap[Last(p).self].dict[Last(p).attr] = Last(p).before[Last(p).attr]
            /\ \A k \in 1..Len(chain[p].done) :
                  IsLatest(chain[p].done, k) =>
                      heap[Last(p).self].dict[chain[p].done[k][1]] = chain[p].done[k][2]

C7_Witness ==
    /\ RejectedCall(1)
    /\ Last(1).fn > 0
    /\ chain[1].steps = 2
    /\ chain[1].done = << <<"a", "v1">> >>
    /\ heap[1].dict["a"] = "v1"
    /\ heap[1].dict["b"] = Default

\* C8 - Zero-field type: generation adds nothing to a type that annotates no
\* field, can always run, and the only methods it ever adds to a type are
\* named with_<f> for a field f annotated in that type.
C8_ZeroFieldType ==
    /\ \A c \in Classes : ENABLED generate_fluent_setters(c)
    /\ \A c \in Classes :
          /\ Annotations(c) = << >> => methods[c] = authored[c]
          /\ \A n \in (DOMAIN methods[c]) \ (DOMAIN authored[c]) :
                \E f \in Range(Annotations(c)) : n = "with_" \o f

C8_Witness ==
    /\ "FluentBaseModel" \in generated
    /\ methods["FluentBaseModel"] = << >>
    /\ "K" \in generated
    /\ authored["K"] = << >>
    /\ DOMAIN methods["K"] = {"with_b", "with_c"}

\* C9 - A call through a fluent_setter wrapper performs exactly one setattr
\* and never runs the wrapped method; when it returns, it returns the
\* instance, whose fields differ from before in the named one alone.
C9_OneMutationPerCall ==
    \A p \in Callers :
        ThroughWrapper(p) =>
            /\ Last(p).nsets = 1
            /\ ~Last(p).bodyRan
            /\ Last(p).exc = "none" =>
                  /\ Last(p).ret = Last(p).self
                  /\ heap[Last(p).self].dict =
                        [Last(p).before EXCEPT ![Last(p).attr] = Last(p).value]

C9_Witness ==
    /\ ThroughWrapper(1)
    /\ Last(1).fn > 0
    /\ Last(1).exc = "none"
    /\ Last(1).nsets = 1
    /\ Last(1).before # heap[1].dict

\* C10 - The text validator rejects a value exactly when it is longer than
\* 140 characters, the description validator exactly when it is longer than
\* 80, and an accepted value comes back with every newline replaced by one
\* space, everything else and the length unchanged.
NewlinesToSpaces(in, out) ==
    /\ Len(out) = Len(in)
    /\ \A i \in 1..Len(in) : out[i] = IF in[i] = "\n" THEN " " ELSE in[i]

====
